---- MODULE Spec2Model ----
(***************************************************************************)
(* Model of wikicommons/wikicommons-scratcher.py: the recursive crawl of   *)
(* the WikiCommons category graph (recur_record_all_licenses), the two     *)
(* query functions (get_subcategories, get_license_contents), the          *)
(* exponential backoff (expo_backoff) and the report file.                 *)
(*                                                                         *)
(* Strings are sequences of one-character strings, so that str.replace,    *)
(* str.split and the f-string joins are computed as Python computes them.  *)
(* Durations are integer milliseconds (randint(1, 1000) / 1000 seconds is  *)
(* 1..1000 ms).                                                            *)
(***************************************************************************)
EXTENDS Integers, Sequences, FiniteSets, TLC

VARIABLES
    phase,            \* "init", "run", "done", "exit" for a run of main;
                      \* "unit", "parse", "parsed" for direct invocations
    exit_code,        \* process exit code, -1 while the process is alive
    exc,              \* what ended the run: "" or the exception's name
    DATA_WRITE_FILE,  \* the module global naming the report file
    file,             \* content of the report file: a sequence of lines
    file0,            \* number of lines the file held before this run
    remote,           \* the remote category graph served by the API
    stack,            \* call stack of recur_record_all_licenses frames
    LICENSE_CACHE,    \* the module global: set of recorded categories
    trace,            \* events of this run: requests, rows, marks, diagnostics
    CALLBACK_EXPO,    \* the module global exponent of expo_backoff
    backoff,          \* last unclamped delay computed by expo_backoff (ms)
    slept,            \* last duration passed to time.sleep (ms)
    op,               \* last operation invoked directly (unit specifications)
    ret               \* outcome of the last directly invoked query function

vars == <<phase, exit_code, exc, DATA_WRITE_FILE, file, file0, remote, stack,
          LICENSE_CACHE, trace, CALLBACK_EXPO, backoff, slept, op, ret>>

runVars == <<phase, exit_code, exc, DATA_WRITE_FILE, file, file0, remote,
             stack, LICENSE_CACHE, trace>>

(***************************************************************************)
(* Program constants.                                                      *)
(***************************************************************************)
CALLBACK_INDEX == 2
MAX_WAIT == 64
MsPerSecond == 1000
RandLow == 1
RandHigh == 1000

(***************************************************************************)
(* Bounds of the model.                                                    *)
(***************************************************************************)
\* Largest "files" / "pages" value of one page-id entry in a response.
MaxCount == 1
\* Largest number of failing responses the remote serves in one run.
MaxFaults == 2
\* Depth of the call stack at which Python raises RecursionError (the
\* interpreter's limit is 1000; every graph of the model needs less).
MaxDepth == 6
\* Distance between the sampled draws of random.randint(1, 1000).
JitterStride == 100

(***************************************************************************)
(* Strings.                                                                *)
(***************************************************************************)
Min(a, b) == IF a < b THEN a ELSE b

RECURSIVE Pow(_, _)
Pow(b, e) == IF e = 0 THEN 1 ELSE b * Pow(b, e - 1)

CategoryPrefix == <<"C", "a", "t", "e", "g", "o", "r", "y", ":">>
Ampersand == <<"&">>
AmpersandEscape == <<"%", "2", "6">>
Slash == <<"/">>

\* str.replace(old, new): left to right, non-overlapping occurrences.
RECURSIVE Replace(_, _, _)
Replace(s, old, new) ==
    IF Len(s) < Len(old) THEN s
    ELSE IF SubSeq(s, 1, Len(old)) = old
         THEN new \o Replace(SubSeq(s, Len(old) + 1, Len(s)), old, new)
         ELSE <<s[1]>> \o Replace(Tail(s), old, new)

\* alias.split("/")[-1]: what follows the last "/", the whole string if none.
LastSegment(s) ==
    LET cuts == {i \in 1..Len(s) : s[i] = "/"}
    IN  IF cuts = {} THEN s
        ELSE SubSeq(s, (CHOOSE i \in cuts : \A j \in cuts : j <= i) + 1, Len(s))

\* f"{alias}/{cats}"
JoinAlias(alias, cats) == alias \o Slash \o cats

(***************************************************************************)
(* expo_backoff and expo_backoff_reset.                                    *)
(***************************************************************************)
\* randint(1, 1000) / 1000 seconds, in milliseconds: the draws the model
\* takes are the smallest, the two largest, and every JitterStride-th.
JitterDraws ==
    {r \in RandLow..RandHigh :
        r \in {RandLow, RandHigh - 1, RandHigh} \/ r % JitterStride = 0}

MaxWaitMs == MAX_WAIT * MsPerSecond

\* backoff = random.randint(1, 1000) / 1000 + CALLBACK_INDEX**CALLBACK_EXPO
UnclampedBackoff(expo, r) == r + Pow(CALLBACK_INDEX, expo) * MsPerSecond

SleepDurationUnclamped(b) == b

\* time.sleep(min(backoff, MAX_WAIT))
SleepDuration(b) == Min(b, MaxWaitMs)

NextExpoAlways(expo, b) == expo + 1

\* if backoff < MAX_WAIT: CALLBACK_EXPO += 1
NextExpo(expo, b) == IF b < MaxWaitMs THEN expo + 1 ELSE expo

\* A direct invocation and its inputs: the responses served to its first
\* and to its retried request, the eb argument, the random draw.
Invocation(name, resp, retry, eb, r) ==
    [name |-> name, resp |-> resp, retry |-> retry, eb |-> eb, r |-> r]

\* The effect of one expo_backoff() call whose random draw is r.
BackoffEffect(r) ==
    /\ backoff' = UnclampedBackoff(CALLBACK_EXPO, r)
    /\ slept' = SleepDuration(UnclampedBackoff(CALLBACK_EXPO, r))
    /\ CALLBACK_EXPO' = NextExpo(CALLBACK_EXPO, UnclampedBackoff(CALLBACK_EXPO, r))

(***************************************************************************)
(* Responses of the remote API, as requests.get(url).json() delivers them. *)
(*   raised  - requests.get or .json() raised (search_data is unbound)     *)
(*   keys    - the top-level keys of the JSON object                       *)
(*   haslist - search_data["query"] holds "categorymembers" / "pages"      *)
(*   items   - the members (with or without "title") or the page-id        *)
(*             entries (with or without "categoryinfo")                    *)
(***************************************************************************)
Member(t) == [hastitle |-> TRUE, title |-> t]
PageInfo(f, p) == [hasinfo |-> TRUE, files |-> f, pages |-> p]

WellFormed(items) ==
    [raised |-> FALSE, keys |-> {"batchcomplete", "query"}, haslist |-> TRUE,
     items |-> items]
NetworkError ==
    [raised |-> TRUE, keys |-> {}, haslist |-> FALSE, items |-> <<>>]
NoQuery ==
    [raised |-> FALSE, keys |-> {"error"}, haslist |-> FALSE, items |-> <<>>]
NoList ==
    [raised |-> FALSE, keys |-> {"batchcomplete", "query"}, haslist |-> FALSE,
     items |-> <<>>]
QueriesNoList ==
    [raised |-> FALSE, keys |-> {"queries", "query"}, haslist |-> FALSE,
     items |-> <<>>]
Failures == {NetworkError, NoQuery, NoList, QueriesNoList}

expo_backoff ==
    /\ phase = "unit"
    /\ \E r \in JitterDraws :
        /\ BackoffEffect(r)
        /\ op' = Invocation("expo_backoff", NetworkError, NetworkError, FALSE, r)
    /\ UNCHANGED <<runVars, ret>>

expo_backoff_reset ==
    /\ phase = "unit"
    /\ CALLBACK_EXPO' = 0
    /\ op' = Invocation("expo_backoff_reset", NetworkError, NetworkError, FALSE, 0)
    /\ UNCHANGED <<runVars, ret, backoff, slept>>

(***************************************************************************)
(* Outcome of a call of a query function.                                  *)
(*   status   - "return", "exit" (SystemExit) or "raise" (an Exception)    *)
(*   none     - the call returned None                                     *)
(*   value    - the returned list / dict when none is FALSE                *)
(*   diag     - the diagnostics printed                                    *)
(*   requests - number of requests.get calls, backoffs - expo_backoff calls*)
(***************************************************************************)
Returned(v, n) ==
    [status |-> "return", none |-> FALSE, value |-> v, code |-> 0,
     error |-> "", diag |-> <<>>, requests |-> n, backoffs |-> 0,
     retry_none |-> TRUE, retry_value |-> v]
ReturnedNone(z, d, n) ==
    [status |-> "return", none |-> TRUE, value |-> z, code |-> 0,
     error |-> "", diag |-> d, requests |-> n, backoffs |-> 0,
     retry_none |-> TRUE, retry_value |-> z]
ExitedOtherCode(z, n) ==
    [status |-> "exit", none |-> TRUE, value |-> z, code |-> 2,
     error |-> "SystemExit", diag |-> <<"ERROR (1) Unhandled exception:">>,
     requests |-> n, backoffs |-> 0, retry_none |-> TRUE, retry_value |-> z]
\* sys.exit(1) in the last branch of the except block.
Exited(z, n) ==
    [status |-> "exit", none |-> TRUE, value |-> z, code |-> 1,
     error |-> "SystemExit", diag |-> <<"ERROR (1) Unhandled exception:">>,
     requests |-> n, backoffs |-> 0, retry_none |-> TRUE, retry_value |-> z]
Raised(z, e, n) ==
    [status |-> "raise", none |-> TRUE, value |-> z, code |-> 0,
     error |-> e, diag |-> <<>>, requests |-> n, backoffs |-> 0,
     retry_none |-> TRUE, retry_value |-> z]

\* What the eb branch makes of the nested call: expo_backoff() ran, one more
\* request was issued, and the nested call's return value is not returned:
\* the outer call falls off the end of the except block and returns None.
AfterRetry(z, nested) ==
    [nested EXCEPT !.none = TRUE,
                   !.value = z,
                   !.requests = nested.requests + 1,
                   !.backoffs = nested.backoffs + 1,
                   !.retry_none = nested.none,
                   !.retry_value = nested.value]

(***************************************************************************)
(* get_subcategories                                                       *)
(***************************************************************************)
\* members["title"].replace("Category:", "").replace("&", "%26")
CleanTitle(t) ==
    Replace(Replace(t, CategoryPrefix, <<>>), Ampersand, AmpersandEscape)

\* The for loop of the try block: cat_list.append(...) per member, in order.
RECURSIVE CatList(_, _)
CatList(items, acc) ==
    IF items = <<>> THEN acc
    ELSE CatList(Tail(items), Append(acc, CleanTitle(Head(items).title)))

\* The try block raises: the request failed, or a subscript finds no key.
SubcatTryRaises(resp) ==
    \/ resp.raised
    \/ "query" \notin resp.keys
    \/ ~resp.haslist
    \/ \E i \in 1..Len(resp.items) : ~resp.items[i].hastitle

\* get_subcategories(license), eb left at its default False.
SubcategoriesPlain(resp) ==
    IF ~SubcatTryRaises(resp) THEN Returned(CatList(resp.items, <<>>), 1)
    ELSE IF resp.raised THEN Raised(<<>>, "UnboundLocalError", 1)
    ELSE IF "query" \notin resp.keys
         THEN ReturnedNone(<<>>,
                  <<"This query will not be processed due to empty subcats.">>, 1)
         ELSE Exited(<<>>, 1)

\* The nested call handed eb on: it backs off and asks once more itself.
get_subcategories_eb_nested(resp, retry, eb) ==
    IF ~SubcatTryRaises(resp) THEN Returned(CatList(resp.items, <<>>), 1)
    ELSE IF eb
         THEN AfterRetry(<<>>,
                  IF SubcatTryRaises(retry)
                  THEN AfterRetry(<<>>, SubcategoriesPlain(retry))
                  ELSE SubcategoriesPlain(retry))
    ELSE SubcategoriesPlain(resp)

\* get_subcategories(license, eb): resp answers the first request, retry the
\* request of the nested get_subcategories(license) of the eb branch.
get_subcategories(resp, retry, eb) ==
    IF ~SubcatTryRaises(resp) THEN Returned(CatList(resp.items, <<>>), 1)
    ELSE IF eb THEN AfterRetry(<<>>, SubcategoriesPlain(retry))
    ELSE SubcategoriesPlain(resp)

(***************************************************************************)
(* get_license_contents                                                    *)
(***************************************************************************)
NoCounts == [total_file_cnt |-> 0, total_page_cnt |-> 0]

\* The try block raises: the request failed, or a subscript finds no key.
ContentTryRaises(resp) ==
    \/ resp.raised
    \/ "query" \notin resp.keys
    \/ ~resp.haslist
    \/ \E i \in 1..Len(resp.items) : ~resp.items[i].hasinfo

SumCountsFirstOnly(items, file_cnt, page_cnt) ==
    IF items = <<>>
    THEN [total_file_cnt |-> file_cnt, total_page_cnt |-> page_cnt]
    ELSE [total_file_cnt |-> file_cnt + Head(items).files,
          total_page_cnt |-> page_cnt + Head(items).pages]

\* The for loop of the try block: file_cnt += ..., page_cnt += ... per id.
RECURSIVE SumCounts(_, _, _)
SumCounts(items, file_cnt, page_cnt) ==
    IF items = <<>>
    THEN [total_file_cnt |-> file_cnt, total_page_cnt |-> page_cnt]
    ELSE SumCounts(Tail(items), file_cnt + Head(items).files,
                   page_cnt + Head(items).pages)

\* get_license_contents(license), eb left at its default False.
LicenseContentsPlain(resp) ==
    IF ~ContentTryRaises(resp) THEN Returned(SumCounts(resp.items, 0, 0), 1)
    ELSE IF resp.raised THEN Raised(NoCounts, "UnboundLocalError", 1)
    ELSE IF "queries" \notin resp.keys
         THEN ReturnedNone(NoCounts,
                  <<"This query will not be processed due to empty result.">>, 1)
         ELSE Exited(NoCounts, 1)

get_license_contents(resp, retry, eb) ==
    IF ~ContentTryRaises(resp) THEN Returned(SumCounts(resp.items, 0, 0), 1)
    ELSE IF eb THEN AfterRetry(NoCounts, LicenseContentsPlain(retry))
    ELSE LicenseContentsPlain(resp)

(***************************************************************************)
(* The remote category graphs.  A graph maps the category name put in the  *)
(* request URL to the titles of its subcategory listing (members) and to   *)
(* the page-id entries of its content response (pages).                    *)
(***************************************************************************)
NameA == <<"A">>
NameB == <<"B">>
NameC == <<"C">>
NameD == <<"D">>
NameXB == <<"X", "/", "B">>
NameTS == <<"T", "&", "S">>
NameTSEscaped == <<"T", "%", "2", "6", "S">>
\* "Free_Creative_Commons_licenses", the default alias.
DefaultAlias ==
    <<"F", "r", "e", "e", "_", "C", "r", "e", "a", "t", "i", "v", "e", "_",
      "C", "o", "m", "m", "o", "n", "s", "_", "l", "i", "c", "e", "n", "s",
      "e", "s">>

Title(name) == CategoryPrefix \o name

Node(children, pages) ==
    [members |-> [i \in 1..Len(children) |-> Member(Title(children[i]))],
     pages |-> pages]

\* The scenario of the specification: A (2,4) with the single child B (0,1).
GraphChain ==
    [root |-> NameA,
     node |-> (NameA :> Node(<<NameB>>, <<PageInfo(2, 4)>>)) @@
              (NameB :> Node(<<>>, <<PageInfo(0, 1)>>))]
\* A cycle: the default root lists B, B lists the root again.
GraphCycle ==
    [root |-> DefaultAlias,
     node |-> (DefaultAlias :> Node(<<NameB>>, <<PageInfo(1, 2)>>)) @@
              (NameB :> Node(<<DefaultAlias>>, <<PageInfo(1, 1), PageInfo(1, 0)>>))]
\* A subcategory shared by two parents.
GraphDiamond ==
    [root |-> NameA,
     node |-> (NameA :> Node(<<NameB, NameC>>, <<PageInfo(0, 0)>>)) @@
              (NameB :> Node(<<NameD>>, <<PageInfo(1, 0)>>)) @@
              (NameC :> Node(<<NameD, NameA>>, <<PageInfo(0, 2)>>)) @@
              (NameD :> Node(<<>>, <<PageInfo(2, 2)>>))]
\* A child whose name holds the alias separator, and another category B.
GraphSlash ==
    [root |-> NameA,
     node |-> (NameA :> Node(<<NameXB, NameC>>, <<PageInfo(1, 1)>>)) @@
              (NameXB :> Node(<<NameD>>, <<PageInfo(2, 1)>>)) @@
              (NameB :> Node(<<>>, <<PageInfo(0, 2)>>)) @@
              (NameC :> Node(<<>>, <<PageInfo(1, 0)>>)) @@
              (NameD :> Node(<<>>, <<PageInfo(2, 0)>>))]
\* A child whose title holds "&": it is requested as "T%26S".
GraphAmpersand ==
    [root |-> NameA,
     node |-> (NameA :> Node(<<NameTS, NameB>>, <<PageInfo(1, 0)>>)) @@
              (NameTSEscaped :> Node(<<NameB>>, <<PageInfo(0, 1)>>)) @@
              (NameB :> Node(<<>>, <<PageInfo(2, 2)>>))]
Graphs == {GraphChain, GraphCycle, GraphDiamond, GraphSlash, GraphAmpersand}

\* The well-formed responses of the remote for a category.  A title that
\* names no category has no subcategories and one entry that lacks
\* "categoryinfo" (the API's answer for a missing page).
SubcatResponse(g, cat) ==
    IF cat \in DOMAIN g.node THEN WellFormed(g.node[cat].members)
    ELSE WellFormed(<<>>)
ContentResponse(g, cat) ==
    IF cat \in DOMAIN g.node THEN WellFormed(g.node[cat].pages)
    ELSE WellFormed(<<[hasinfo |-> FALSE, files |-> 0, pages |-> 0]>>)

(***************************************************************************)
(* The report file.                                                        *)
(***************************************************************************)
\* header_title = "LICENSE TYPE,File Count, Page Count"
HeaderLine ==
    [header |-> TRUE, alias |-> <<>>, file_cnt |-> 0, page_cnt |-> 0]
DataLogNoCounts(alias, counts) ==
    [header |-> FALSE, alias |-> alias, file_cnt |-> 0, page_cnt |-> 0]

\* f"{license_alias},{total_file_cnt},{total_page_cnt}"
DataLog(alias, counts) ==
    [header |-> FALSE, alias |-> alias, file_cnt |-> counts.total_file_cnt,
     page_cnt |-> counts.total_page_cnt]

CWD == "CWD"
DatedFile == "CWD/data_wikicommons_Y_M_D.txt"

\* The file of an earlier run on the same date.
EarlierFile == <<HeaderLine, DataLog(NameA, [total_file_cnt |-> 1, total_page_cnt |-> 1])>>

(***************************************************************************)
(* The run: main and recur_record_all_licenses.                            *)
(*                                                                         *)
(* A frame of recur_record_all_licenses holds alias, cur_cat, the value    *)
(* get_subcategories returned (sub_none: it returned None), the index i of *)
(* the next child of the for loop, and pc: "call" (lines 219-221),         *)
(* "record" (lines 222-224) or "loop" (lines 225-226).                     *)
(***************************************************************************)
Event(ev, cat, alias, fault) ==
    [ev |-> ev, cat |-> cat, alias |-> alias, fault |-> fault]

FaultName(resp) ==
    CASE resp = NetworkError -> "NetworkError"
      [] resp = NoQuery -> "NoQuery"
      [] resp = NoList -> "NoList"
      [] resp = QueriesNoList -> "QueriesNoList"
      [] OTHER -> "none"

IsRequest(e) == e.ev \in {"subcat", "content"}
Faults == {i \in DOMAIN trace : trace[i].fault # "none"}

\* What the remote may answer: the graph's response, or a failure.
Served(wf) == {wf} \cup (IF Cardinality(Faults) < MaxFaults THEN Failures ELSE {})

Frame(alias) ==
    [alias |-> alias, cur_cat |-> LastSegment(alias), sub_none |-> TRUE,
     subcategories |-> <<>>, i |-> 1, pc |-> "call"]

Top == stack[Len(stack)]
Pop == SubSeq(stack, 1, Len(stack) - 1)
SetTop(f) == [stack EXCEPT ![Len(stack)] = f]

\* The events of a query call: the request, the expo_backoff() wait and the
\* request of the nested call when the eb branch ran, then what it printed.
CallEvents(kind, cat, alias, resp, retry, out) ==
    <<Event(kind, cat, alias, FaultName(resp))>> \o
    (IF out.backoffs = 0 THEN <<>>
     ELSE <<Event("backoff", cat, alias, "none"),
            Event(kind, cat, alias, FaultName(retry))>>) \o
    (IF out.diag = <<>> THEN <<>> ELSE <<Event("diag", cat, alias, "none")>>)

\* An exception reaches the handlers of __main__ (lines 243-251).
Exit(code, e) ==
    /\ phase' = "exit"
    /\ exit_code' = code
    /\ exc' = e
    /\ stack' = <<>>

InCacheNever(cat) == FALSE

\* cur_cat in LICENSE_CACHE
InCache(cat) == cat \in LICENSE_CACHE

MarkNothing(cache, cat) == cache

\* LICENSE_CACHE[cur_cat] = True
MarkRecorded(cache, cat) == cache \cup {cat}

\* main, lines 230-236, up to the call of recur_record_all_licenses:
\* the file name, set_up_data_file (open(..., "a") and the header), and
\* the first frame.
main_start ==
    /\ phase = "init"
    /\ phase' = "run"
    /\ DATA_WRITE_FILE' = DatedFile
    /\ file' = Append(file, HeaderLine)
    /\ stack' = <<Frame(remote.root)>>
    /\ UNCHANGED <<exit_code, exc, file0, remote, LICENSE_CACHE, trace,
                   CALLBACK_EXPO, backoff, slept, op, ret>>

\* Lines 219-221: cur_cat, the subcategory request, and the cache guard.
recur_call ==
    /\ phase = "run" /\ stack # <<>> /\ Top.pc = "call"
    /\ \E resp \in Served(SubcatResponse(remote, Top.cur_cat)) :
        LET out == get_subcategories(resp, resp, FALSE) IN
        /\ trace' = trace \o CallEvents("subcat", Top.cur_cat, Top.alias, resp, resp, out)
        /\ IF out.status = "exit" THEN Exit(out.code, out.error)
           ELSE IF out.status = "raise" THEN Exit(1, out.error)
           ELSE /\ stack' = IF InCache(Top.cur_cat) THEN Pop
                            ELSE SetTop([Top EXCEPT !.sub_none = out.none,
                                                    !.subcategories = out.value,
                                                    !.pc = "record"])
                /\ UNCHANGED <<phase, exit_code, exc>>
    /\ UNCHANGED <<DATA_WRITE_FILE, file, file0, remote, LICENSE_CACHE,
                   CALLBACK_EXPO, backoff, slept, op, ret>>

\* Lines 222-224: record_license_data (lines 198-204) and the cache entry.
recur_record ==
    /\ phase = "run" /\ stack # <<>> /\ Top.pc = "record"
    /\ \E resp \in Served(ContentResponse(remote, Top.cur_cat)) :
        LET out == get_license_contents(resp, resp, FALSE)
            req == CallEvents("content", Top.cur_cat, Top.alias, resp, resp, out)
        IN
        IF out.status = "exit"
        THEN /\ Exit(out.code, out.error)
             /\ trace' = trace \o req
             /\ UNCHANGED <<file, LICENSE_CACHE>>
        ELSE IF out.status = "raise"
        THEN /\ Exit(1, out.error)
             /\ trace' = trace \o req
             /\ UNCHANGED <<file, LICENSE_CACHE>>
        ELSE IF out.none
        THEN \* search_result['total_file_cnt'] with search_result None
             /\ Exit(1, "TypeError")
             /\ trace' = trace \o req
             /\ UNCHANGED <<file, LICENSE_CACHE>>
        ELSE /\ file' = Append(file, DataLog(Top.alias, out.value))
             /\ LICENSE_CACHE' = MarkRecorded(LICENSE_CACHE, Top.cur_cat)
             /\ trace' = trace \o req \o
                         <<Event("row", Top.cur_cat, Top.alias, "none"),
                           Event("mark", Top.cur_cat, Top.alias, "none")>>
             /\ stack' = SetTop([Top EXCEPT !.pc = "loop"])
             /\ UNCHANGED <<phase, exit_code, exc>>
    /\ UNCHANGED <<DATA_WRITE_FILE, file0, remote, CALLBACK_EXPO, backoff,
                   slept, op, ret>>

\* Lines 225-226: one turn of "for cats in subcategories": the recursive
\* call for the next child, or the return when the list is exhausted.
recur_loop ==
    /\ phase = "run" /\ stack # <<>> /\ Top.pc = "loop"
    /\ IF Top.sub_none
       THEN \* iterating None
            Exit(1, "TypeError")
       ELSE IF Top.i > Len(Top.subcategories)
       THEN /\ stack' = Pop
            /\ UNCHANGED <<phase, exit_code, exc>>
       ELSE IF Len(stack) >= MaxDepth
       THEN Exit(1, "RecursionError")
       ELSE /\ stack' = Append(SetTop([Top EXCEPT !.i = Top.i + 1]),
                               Frame(JoinAlias(Top.alias, Top.subcategories[Top.i])))
            /\ UNCHANGED <<phase, exit_code, exc>>
    /\ UNCHANGED <<DATA_WRITE_FILE, file, file0, remote, LICENSE_CACHE, trace,
                   CALLBACK_EXPO, backoff, slept, op, ret>>

\* main, line 237, and the normal end of the process.
main_finish ==
    /\ phase = "run" /\ stack = <<>>
    /\ phase' = "done"
    /\ exit_code' = 0
    /\ DATA_WRITE_FILE' = CWD
    /\ UNCHANGED <<exc, file, file0, remote, stack, LICENSE_CACHE, trace,
                   CALLBACK_EXPO, backoff, slept, op, ret>>

\* A KeyboardInterrupt at any point of the run (lines 245-247).
keyboard_interrupt ==
    /\ phase \in {"init", "run"}
    /\ Exit(130, "KeyboardInterrupt")
    /\ UNCHANGED <<DATA_WRITE_FILE, file, file0, remote, LICENSE_CACHE, trace,
                   CALLBACK_EXPO, backoff, slept, op, ret>>

NoOutcome == ReturnedNone(<<>>, <<>>, 0)
NoInvocation == Invocation("", NetworkError, NetworkError, FALSE, 0)

Init ==
    /\ phase = "init"
    /\ exit_code = -1
    /\ exc = ""
    /\ DATA_WRITE_FILE = CWD
    /\ file \in {<<>>, EarlierFile}
    /\ file0 = Len(file)
    /\ remote \in Graphs
    /\ stack = <<>>
    /\ LICENSE_CACHE = {}
    /\ trace = <<>>
    /\ CALLBACK_EXPO = 0
    /\ backoff = 0
    /\ slept = 0
    /\ op = NoInvocation
    /\ ret = NoOutcome

Step == main_start \/ recur_call \/ recur_record \/ recur_loop \/ main_finish

Next == Step \/ keyboard_interrupt

Spec == Init /\ [][Next]_vars

\* The interpreter keeps executing the single thread until the process ends.
FairSpec == Spec /\ WF_vars(Step)

(***************************************************************************)
(* Direct invocations of the query functions, with eb False or True.       *)
(***************************************************************************)
\* Largest number of members / page-id entries of a response.
MaxItems == 2

\* "Category:A"
TitleA == Title(NameA)
\* "Category:Things & Stuff"
TitleThingsAndStuff ==
    Title(<<"T", "h", "i", "n", "g", "s", " ", "&", " ", "S", "t", "u", "f", "f">>)
\* "Category:X/B"
TitleXB == Title(NameXB)
\* "Category:A&B Category:C&D": the text "Category:" inside the name.
TitleInner ==
    Title(<<"A", "&", "B", " ">> \o CategoryPrefix \o <<"C", "&", "D">>)
\* "B": a title without the namespace prefix.
TitleBare == NameB
TitleSamples == {TitleA, TitleThingsAndStuff, TitleXB, TitleInner, TitleBare}

RECURSIVE SeqsUpTo(_, _)
SeqsUpTo(S, n) ==
    IF n = 0 THEN {<<>>}
    ELSE LET shorter == SeqsUpTo(S, n - 1)
         IN  shorter \cup {Append(q, x) : q \in shorter, x \in S}

SubcatInputs ==
    {WellFormed(q) : q \in SeqsUpTo({Member(t) : t \in TitleSamples}, MaxItems)}
    \cup {WellFormed(<<[hastitle |-> FALSE, title |-> <<>>]>>)}
    \cup Failures

ContentInputs ==
    {WellFormed(q) :
        q \in SeqsUpTo({PageInfo(f, p) : f \in 0..MaxCount, p \in 0..MaxCount},
                       MaxItems)}
    \cup {WellFormed(<<PageInfo(3, 5), PageInfo(1, 2)>>)}
    \cup {WellFormed(<<[hasinfo |-> FALSE, files |-> 0, pages |-> 0]>>)}
    \cup Failures

\* Responses served to the requests of a direct invocation with eb.
SubcatServed == {WellFormed(<<>>), WellFormed(<<Member(TitleA)>>)} \cup Failures
ContentServed ==
    {WellFormed(<<PageInfo(1, 1)>>), WellFormed(<<PageInfo(0, 1), PageInfo(1, 0)>>)}
    \cup Failures

JitterSamples == {RandLow, RandHigh}

call_get_subcategories ==
    /\ phase = "unit"
    /\ \E resp \in SubcatServed, eb \in BOOLEAN :
        IF SubcatTryRaises(resp) /\ eb
        THEN \E retry \in SubcatServed, r \in JitterSamples :
                /\ BackoffEffect(r)
                /\ ret' = get_subcategories(resp, retry, eb)
                /\ op' = Invocation("get_subcategories", resp, retry, eb, r)
        ELSE /\ ret' = get_subcategories(resp, resp, eb)
             /\ op' = Invocation("get_subcategories", resp, resp, eb, 0)
             /\ UNCHANGED <<CALLBACK_EXPO, backoff, slept>>
    /\ UNCHANGED runVars

call_get_license_contents ==
    /\ phase = "unit"
    /\ \E resp \in ContentServed, eb \in BOOLEAN :
        IF ContentTryRaises(resp) /\ eb
        THEN \E retry \in ContentServed, r \in JitterSamples :
                /\ BackoffEffect(r)
                /\ ret' = get_license_contents(resp, retry, eb)
                /\ op' = Invocation("get_license_contents", resp, retry, eb, r)
        ELSE /\ ret' = get_license_contents(resp, resp, eb)
             /\ op' = Invocation("get_license_contents", resp, resp, eb, 0)
             /\ UNCHANGED <<CALLBACK_EXPO, backoff, slept>>
    /\ UNCHANGED runVars

\* One call of a query function on the response op.resp, eb at its default.
parse_subcategories ==
    /\ phase = "parse"
    /\ op.name = "get_subcategories"
    /\ ret' = get_subcategories(op.resp, op.resp, FALSE)
    /\ phase' = "parsed"
    /\ UNCHANGED <<exit_code, exc, DATA_WRITE_FILE, file, file0, remote, stack,
                   LICENSE_CACHE, trace, CALLBACK_EXPO, backoff, slept, op>>

parse_license_contents ==
    /\ phase = "parse"
    /\ op.name = "get_license_contents"
    /\ ret' = get_license_contents(op.resp, op.resp, FALSE)
    /\ phase' = "parsed"
    /\ UNCHANGED <<exit_code, exc, DATA_WRITE_FILE, file, file0, remote, stack,
                   LICENSE_CACHE, trace, CALLBACK_EXPO, backoff, slept, op>>

InitUnit ==
    /\ phase = "unit"
    /\ exit_code = -1
    /\ exc = ""
    /\ DATA_WRITE_FILE = CWD
    /\ file = <<>>
    /\ file0 = 0
    /\ remote = GraphChain
    /\ stack = <<>>
    /\ LICENSE_CACHE = {}
    /\ trace = <<>>
    /\ CALLBACK_EXPO = 0
    /\ backoff = 0
    /\ slept = 0
    /\ op = NoInvocation
    /\ ret = NoOutcome

NextBackoff == expo_backoff \/ expo_backoff_reset
SpecBackoff == InitUnit /\ [][NextBackoff]_vars

NextQuery == call_get_subcategories \/ call_get_license_contents
SpecQuery == InitUnit /\ [][NextQuery]_vars

\* A query function about to be called on one response of the input sets.
InitParse ==
    /\ phase = "parse"
    /\ exit_code = -1
    /\ exc = ""
    /\ DATA_WRITE_FILE = CWD
    /\ file = <<>>
    /\ file0 = 0
    /\ remote = GraphChain
    /\ stack = <<>>
    /\ LICENSE_CACHE = {}
    /\ trace = <<>>
    /\ CALLBACK_EXPO = 0
    /\ backoff = 0
    /\ slept = 0
    /\ op \in {Invocation("get_subcategories", resp, resp, FALSE, 0) :
                  resp \in SubcatInputs}
              \cup {Invocation("get_license_contents", resp, resp, FALSE, 0) :
                       resp \in ContentInputs}
    /\ ret = NoOutcome

NextParse == parse_subcategories \/ parse_license_contents
SpecParse == InitParse /\ [][NextParse]_vars

(***************************************************************************)
(* Properties.                                                             *)
(***************************************************************************)
Requests(t) == Len(SelectSeq(t, IsRequest))

\* The data rows this run appended to the file (after its own header).
RunRows == SubSeq(file, file0 + 2, Len(file))

\* The run ended normally and the remote served no failure.
CleanRun == phase = "done" /\ Faults = {}

\* C1: a call of recur_record_all_licenses on a category that is already in
\* LICENSE_CACHE issues no remote request and appends no row.
C1_VisitedCallIsSilent ==
    [][(phase = "run" /\ stack # <<>> /\ Top.pc = "call"
        /\ Top.cur_cat \in LICENSE_CACHE)
       => (Requests(trace') = Requests(trace) /\ file' = file)]_vars

\* C2: the rows recorded by one run hold at most one row per category, in
\* every reachable state and for every graph (cycles, shared subcategories).
C2_OneRowPerCategory ==
    \A i, j \in DOMAIN RunRows :
        i # j => LastSegment(RunRows[i].alias) # LastSegment(RunRows[j].alias)

\* A completed run that reached the category of an existing row again.
C2_Witness ==
    /\ phase = "done"
    /\ \E i \in DOMAIN RunRows, k \in DOMAIN trace :
        /\ trace[k].ev = "subcat"
        /\ trace[k].cat = LastSegment(RunRows[i].alias)
        /\ trace[k].alias # RunRows[i].alias

\* C3: when every remote request succeeds (and no interrupt arrives), the
\* traversal terminates: recur_record_all_licenses returns and main ends.
C3_Terminates == <>(phase = "done" \/ Faults # {} \/ exit_code = 130)

\* The traversal of the cyclic graph has returned.
C3_Witness == CleanRun /\ remote = GraphCycle /\ Len(RunRows) = 2

\* The depth-first pre-order of first visits, children in listing order, each
\* category identified by its name and labelled by its path from the root.
ChildNames(g, cat) ==
    IF cat \in DOMAIN g.node
    THEN [i \in 1..Len(g.node[cat].members) |-> CleanTitle(g.node[cat].members[i].title)]
    ELSE <<>>
CountsOf(g, cat) == SumCounts(ContentResponse(g, cat).items, 0, 0)

RECURSIVE PreVisit(_, _, _, _), PreChildren(_, _, _, _)
PreVisit(g, cat, alias, acc) ==
    IF cat \in acc.visited THEN acc
    ELSE PreChildren(g, ChildNames(g, cat), alias,
                     [rows |-> Append(acc.rows, DataLog(alias, CountsOf(g, cat))),
                      visited |-> acc.visited \cup {cat}])
PreChildren(g, kids, alias, acc) ==
    IF kids = <<>> THEN acc
    ELSE PreChildren(g, Tail(kids), alias,
                     PreVisit(g, Head(kids), JoinAlias(alias, Head(kids)), acc))
PreOrder(g) == PreVisit(g, g.root, g.root, [rows |-> <<>>, visited |-> {}]).rows

\* C4: after a completed run with every request succeeding, the data rows
\* are the pre-order sequence of first visits of the reachable categories,
\* each row (path from the root, files of that category, pages of it).
C4_RowsArePreOrder == CleanRun => RunRows = PreOrder(remote)

\* Some failure was served, and every failure served so far is `fault` on a
\* request of kind `kind`.
OnlyFault(kind, fault) ==
    /\ Faults # {}
    /\ \A i \in Faults : trace[i].ev = kind /\ trace[i].fault = fault

\* C5: a content response without the "query" key does not crash the run.
C5_ContentNoQueryIsSkipped ==
    OnlyFault("content", "NoQuery") => exit_code \notin {1}

\* C6: a subcategory response without the "query" key does not crash the run.
C6_SubcatNoQueryIsSkipped ==
    OnlyFault("subcat", "NoQuery") => exit_code \notin {1}

\* Totals of a response's entries, from the last entry backwards.
RECURSIVE TotalFiles(_)
TotalFiles(items) ==
    IF items = <<>> THEN 0
    ELSE items[Len(items)].files + TotalFiles(SubSeq(items, 1, Len(items) - 1))
RECURSIVE TotalPages(_)
TotalPages(items) ==
    IF items = <<>> THEN 0
    ELSE items[Len(items)].pages + TotalPages(SubSeq(items, 1, Len(items) - 1))

ParsedContents ==
    phase = "parsed" /\ op.name = "get_license_contents"
    /\ ~ContentTryRaises(op.resp)

\* C7: for a well-formed content response get_license_contents returns the
\* sums of "files" and of "pages" over all page-id entries.
C7_TotalsAreSums ==
    ParsedContents =>
        /\ ret.status = "return" /\ ~ret.none
        /\ ret.value.total_file_cnt = TotalFiles(op.resp.items)
        /\ ret.value.total_page_cnt = TotalPages(op.resp.items)

\* The example: entries (3,5) and (1,2) give (4,7).
C7_Witness ==
    /\ ParsedContents
    /\ op.resp.items = <<PageInfo(3, 5), PageInfo(1, 2)>>
    /\ ret.value = [total_file_cnt |-> 4, total_page_cnt |-> 7]

\* The name of a title: the leading "Category:" removed, every "&" escaped.
StripPrefix(t) ==
    IF Len(t) >= Len(CategoryPrefix) /\ SubSeq(t, 1, Len(CategoryPrefix)) = CategoryPrefix
    THEN SubSeq(t, Len(CategoryPrefix) + 1, Len(t))
    ELSE t
RECURSIVE EscapeAmpersands(_)
EscapeAmpersands(t) ==
    IF t = <<>> THEN <<>>
    ELSE (IF Head(t) = "&" THEN AmpersandEscape ELSE <<Head(t)>>)
         \o EscapeAmpersands(Tail(t))

ParsedSubcategories ==
    phase = "parsed" /\ op.name = "get_subcategories"
    /\ ~SubcatTryRaises(op.resp)

\* C8: for a well-formed listing get_subcategories returns, in order, one
\* name per title, with the prefix "Category:" removed and every "&"
\* replaced by "%26"; an empty listing gives the empty sequence.
C8_NamesArePrefixStripped ==
    ParsedSubcategories =>
        /\ ret.status = "return" /\ ~ret.none
        /\ Len(ret.value) = Len(op.resp.items)
        /\ \A i \in DOMAIN ret.value :
            ret.value[i] = EscapeAmpersands(StripPrefix(op.resp.items[i].title))

\* C9: expo_backoff never sleeps longer than MAX_WAIT.
C9_SleepAtMostMaxWait == slept <= MaxWaitMs

\* A call whose unclamped delay exceeded the ceiling slept the ceiling.
C9_Witness ==
    op.name = "expo_backoff" /\ backoff > MaxWaitMs /\ slept = MaxWaitMs

\* The least exponent whose power reaches the ceiling.
SaturationExponent ==
    CHOOSE e \in 0..MAX_WAIT :
        /\ Pow(CALLBACK_INDEX, e) >= MAX_WAIT
        /\ \A d \in 0..(e - 1) : Pow(CALLBACK_INDEX, d) < MAX_WAIT

\* C10: over expo_backoff calls without a reset the exponent grows by one
\* while the unclamped delay is below the ceiling, stays once it reaches the
\* ceiling, never decreases and never exceeds the saturation value 6; the
\* minimum delay (base^exponent) never decreases.
C10_ExponentSaturates ==
    [][op'.name = "expo_backoff" =>
        /\ CALLBACK_EXPO' = IF backoff' < MaxWaitMs THEN CALLBACK_EXPO + 1
                            ELSE CALLBACK_EXPO
        /\ CALLBACK_EXPO' >= CALLBACK_EXPO
        /\ CALLBACK_EXPO' <= SaturationExponent
        /\ SaturationExponent = 6
        /\ Pow(CALLBACK_INDEX, CALLBACK_EXPO') >= Pow(CALLBACK_INDEX, CALLBACK_EXPO)]_vars

\* A call at the saturated exponent left it unchanged.
C10_Witness ==
    /\ op.name = "expo_backoff"
    /\ CALLBACK_EXPO = SaturationExponent
    /\ backoff = op.r + Pow(CALLBACK_INDEX, SaturationExponent) * MsPerSecond


\* C11: in a run of main every failed request is followed by an
\* expo_backoff wait and a retry of the same request.
C11_FailedRequestIsRetried ==
    \A i \in Faults :
        /\ i + 2 <= Len(trace)
        /\ trace[i + 1].ev = "backoff"
        /\ trace[i + 2].ev = trace[i].ev
        /\ trace[i + 2].cat = trace[i].cat

\* C12: the process ends with code 0 exactly on normal completion, with 130
\* exactly on a KeyboardInterrupt, and with 1 on every other failure.
C12_ExitCodes ==
    /\ phase \in {"init", "run"} => exit_code = -1
    /\ phase = "done" => exit_code = 0 /\ exc = ""
    /\ phase = "exit" =>
        /\ exc # ""
        /\ exit_code = IF exc = "KeyboardInterrupt" THEN 130 ELSE 1
    /\ phase \in {"init", "run", "done", "exit"}

\* A failed request whose except block itself raised ended the run.
C12_Witness ==
    /\ phase = "exit" /\ exit_code = 1 /\ exc = "UnboundLocalError"
    /\ \E i \in Faults : trace[i].fault = "NetworkError"


\* The lines this run appended to the file, its own header included.
RunLines == SubSeq(file, file0 + 1, Len(file))

\* C13: after a run, also when the file of an earlier run exists, the first
\* line of the file is the header, the header occurs once, and every other
\* line is a row written by this run.
C13_FileIsHeaderThenRunRows ==
    phase = "done" =>
        /\ file # <<>> /\ file[1] = HeaderLine
        /\ Cardinality({k \in DOMAIN file : file[k].header}) = 1
        /\ Len(file) - 1 = Cardinality({i \in DOMAIN trace : trace[i].ev = "row"})

IsPrefix(a, b) == Len(a) <= Len(b) /\ SubSeq(b, 1, Len(a)) = a

\* A row whose metrics are the totals of a well-formed content response
\* served before for the category the row was recorded for.
CompleteRow(row) ==
    /\ ~row.header
    /\ \E i \in DOMAIN trace :
        /\ trace[i].ev = "content" /\ trace[i].fault = "none"
        /\ trace[i].alias = row.alias
        /\ row.file_cnt = TotalFiles(ContentResponse(remote, trace[i].cat).items)
        /\ row.page_cnt = TotalPages(ContentResponse(remote, trace[i].cat).items)

RunLinesComplete ==
    \A k \in DOMAIN RunLines :
        IF k = 1 THEN RunLines[k] = HeaderLine ELSE CompleteRow(RunLines[k])

\* C14: in every state, failed and interrupted runs included, the lines the
\* run wrote are the header followed by complete rows, and no step removes
\* or alters a line that was written before.
C14_RowsCompleteAndKept ==
    [][IsPrefix(file, file') /\ RunLinesComplete']_vars

\* A run that failed after it had written rows.
C14_Witness ==
    /\ phase = "exit" /\ exit_code = 1
    /\ Len(RunLines) >= 3
    /\ RunLinesComplete

\* C15: for a recorded category the subcategory request comes after the
\* content request, the row and the cache entry.
C15_SubcatRequestAfterRow ==
    \A i, j \in DOMAIN trace :
        (trace[i].ev = "row" /\ trace[j].ev = "subcat"
         /\ trace[j].cat = trace[i].cat /\ trace[j].alias = trace[i].alias)
        => i < j

\* C16: the call made for a child name queries that child name, also when
\* the name holds "/".
C16_ChildNameIsQueried ==
    \A k \in 2..Len(stack) :
        LET child == stack[k - 1].subcategories[stack[k - 1].i - 1] IN
        /\ stack[k].cur_cat = child
        /\ stack[k].pc # "call" =>
            \E i \in DOMAIN trace :
                /\ trace[i].ev = "subcat"
                /\ trace[i].alias = stack[k].alias
                /\ trace[i].cat = child


\* A direct call with eb=True whose first request failed and whose retried
\* request succeeded.
RetrySucceeded ==
    /\ op.name \in {"get_subcategories", "get_license_contents"}
    /\ op.eb
    /\ ret.backoffs >= 1
    /\ ret.status = "return" /\ ~ret.retry_none

\* C17: after a call with eb=True that succeeded following a backoff wait,
\* the exponent is 0 again.
C17_ExponentResetAfterSuccess == RetrySucceeded => CALLBACK_EXPO = 0

\* C18: a call with eb=True whose first attempt fails and whose retried
\* attempt succeeds returns the value of the retried attempt.
C18_RetriedValueIsReturned ==
    RetrySucceeded => ~ret.none /\ ret.value = ret.retry_value

\* C19: the jitter expo_backoff adds to base^exponent is within 1..999 ms.
C19_JitterWithinDocumentedRange ==
    [][op'.name = "expo_backoff" =>
        (backoff' - Pow(CALLBACK_INDEX, CALLBACK_EXPO) * MsPerSecond)
            \in RandLow..(RandHigh - 1)]_vars

\* A direct call with eb=True both of whose requests were served a failure.
AlwaysFailing ==
    /\ op.eb
    /\ \/ op.name = "get_subcategories"
          /\ SubcatTryRaises(op.resp) /\ SubcatTryRaises(op.retry)
       \/ op.name = "get_license_contents"
          /\ ContentTryRaises(op.resp) /\ ContentTryRaises(op.retry)

\* C20: a call with eb=True against an endpoint that fails every request
\* ends after at most one backoff wait and at most two requests.
C20_AtMostOneRetry ==
    AlwaysFailing =>
        /\ ret.backoffs <= 1
        /\ ret.requests <= 2
        /\ ret.status \in {"return", "exit", "raise"}

\* Such a call made its two requests and its one wait, and ended.
C20_Witness ==
    /\ AlwaysFailing
    /\ ret.backoffs = 1 /\ ret.requests = 2
    /\ slept > 0

====
